---------------------------- MODULE Spec2Model ----------------------------
(***************************************************************************)
(* A model of the Graphite node-graph core:                                *)
(*   - the scene graph data model, the footprint-driven construction nodes *)
(*     and the lowering to a usvg tree (gcore/src/graphic_element.rs);     *)
(*   - the type-erasure adapters and the composition adapter               *)
(*     (gstd/src/any.rs).                                                  *)
(* Integers of the program keep their width: IVec2 components are i32 and  *)
(* image extents are u32.  An arithmetic overflow panics in a build with   *)
(* overflow checks and wraps in a build without them; the build is chosen  *)
(* once, in the initial state (overflow_checks).                           *)
(***************************************************************************)
EXTENDS Integers, Sequences, FiniteSets, TLC

VARIABLES
    overflow_checks,  \* TRUE: overflow panics (debug); FALSE: it wraps (release)
    \* layer construction and lowering
    stack,            \* the GraphicGroup the chain of ConstructLayerNodes evaluates to
    appended,         \* history: the elements appended by construct_layer, in call order
    layerCall,        \* the last evaluation of construct_layer: its inputs and its output
    lowered,          \* the last call of to_usvg_tree / to_usvg_node: its input and result
    \* artboards
    callerFootprint,  \* the Footprint value the caller of construct_artboard holds
    abCall,           \* the last evaluation of construct_artboard / Artboard::new
    artboards,        \* the ArtboardGroup the chain of AddArtboardNodes evaluates to
    added,            \* history: the artboards appended by add_artboard, in call order
    flat,             \* the last call of get_graphic_group: its receiver and its result
    \* type-erasure adapters
    call,             \* the evaluation in progress through a DynAny*Node adapter
    cache,            \* the cache of each memoizing node an adapter wraps
    lifecycle,        \* the last reset / serialize / evaluation issued on an adapter
    \* composition
    flows             \* the evaluations in progress of one shared ComposeTypeErased

layerVars == <<stack, appended, layerCall, lowered>>
artVars == <<callerFootprint, abCall, artboards, added, flat>>
anyVars == <<call, cache, lifecycle>>
composeVars == <<flows>>
vars == <<overflow_checks, layerVars, artVars, anyVars, composeVars>>

None == [none |-> TRUE]

\* no call yet
NoCall == [op |-> "none"]

---------------------------------------------------------------------------
(* Bounds of the model *)

\* the longest chain of ConstructLayerNodes
MaxLayers == 2
\* the longest chain of AddArtboardNodes
MaxArtboards == 2
\* the number of concurrent evaluations of one shared composition
NumFlows == 2

---------------------------------------------------------------------------
(* Machine integers *)

\* i32::MIN and i32::MAX; u32 values are pairs <<high 16 bits, low 16 bits>>
I32Max == 2147483647
I32Min == (-I32Max) - 1
Half == 65536

\* i32 + i32 does not fit an i32
AddI32Overflows(a, b) ==
    \/ b > 0 /\ a > I32Max - b
    \/ b < 0 /\ a < I32Min - b

\* i32 + i32, wrapped to 32 bits (two's complement)
AddI32(a, b) ==
    IF ~AddI32Overflows(a, b) THEN a + b
    ELSE IF b > 0 THEN ((a - I32Max) - 1) + ((b - I32Max) - 1)
    ELSE ((a + I32Max) + 1) + ((b + I32Max) + 1)

\* i32::abs overflows on i32::MIN, and then wraps to i32::MIN
AbsI32Overflows(a) == a = I32Min

AbsI32(a) == IF a >= 0 \/ a = I32Min THEN a ELSE -a

MinInt(a, b) == IF a <= b THEN a ELSE b

\* a u32 from a number below 2^31
U32(n) == <<n \div Half, n % Half>>

\* the 32-bit product of two 16-bit numbers, as <<high half, low half>>
Mul16(a, b) ==
    LET x == (a \div 256) * b
        y == (a % 256) * b
        t == (x % 256) * 256 + y
    IN <<(x \div 256) + (t \div Half), t % Half>>

\* the middle 16-bit column of u32 * u32, with its carry
MulU32Mid(a, b) == Mul16(a[2], b[2])[1] + Mul16(a[1], b[2])[2] + Mul16(a[2], b[1])[2]

\* u32 * u32 does not fit a u32
MulU32Overflows(a, b) ==
    \/ Mul16(a[1], b[1]) # <<0, 0>>
    \/ Mul16(a[1], b[2])[1] # 0
    \/ Mul16(a[2], b[1])[1] # 0
    \/ MulU32Mid(a, b) >= Half

\* u32 * u32, wrapped to 32 bits
MulU32(a, b) == <<MulU32Mid(a, b) % Half, Mul16(a[2], b[2])[2]>>

---------------------------------------------------------------------------
(* glam: DAffine2 { matrix2, translation }, column major.  The model's     *)
(* transforms have small integer entries, which f64 represents exactly.    *)

DAffine2_IDENTITY == [matrix2 |-> <<1, 0, 0, 1>>, translation |-> <<0, 0>>]

from_translation(v) == [matrix2 |-> <<1, 0, 0, 1>>, translation |-> v]

\* matrix2 * vector
Mat2MulVec(m, v) == <<m[1] * v[1] + m[3] * v[2], m[2] * v[1] + m[4] * v[2]>>

Mat2Mul(a, b) ==
    <<a[1] * b[1] + a[3] * b[2], a[2] * b[1] + a[4] * b[2],
      a[1] * b[3] + a[3] * b[4], a[2] * b[3] + a[4] * b[4]>>

\* DAffine2 * DAffine2 (a *= b is a = a * b)
AffineMul(a, b) ==
    [matrix2 |-> Mat2Mul(a.matrix2, b.matrix2),
     translation |-> <<Mat2MulVec(a.matrix2, b.translation)[1] + a.translation[1],
                       Mat2MulVec(a.matrix2, b.translation)[2] + a.translation[2]>>]

transform_point2(t, p) ==
    <<Mat2MulVec(t.matrix2, p)[1] + t.translation[1],
      Mat2MulVec(t.matrix2, p)[2] + t.translation[2]>>

\* DAffine2::to_cols_array handed to usvg::Transform::from_row
to_transform(t) ==
    <<t.matrix2[1], t.matrix2[2], t.matrix2[3], t.matrix2[4],
      t.translation[1], t.translation[2]>>

---------------------------------------------------------------------------
(* The scene graph data model *)

AlphaBlending_new == [opacity |-> 1, blend_mode |-> "Normal"]

GraphicGroup_EMPTY ==
    [elements |-> <<>>, transform |-> DAffine2_IDENTITY,
     alpha_blending |-> AlphaBlending_new]

\* Vec::push through DerefMut: the element goes last
GraphicGroup_push(group, element) ==
    [group EXCEPT !.elements = Append(@, element)]

\* VectorData::empty(): no subpaths
VectorData_empty == [subpaths |-> <<>>, transform |-> DAffine2_IDENTITY]

\* impl From<VectorData> for GraphicElement
From_VectorData(vector_data) == [kind |-> "VectorData", vector_data |-> vector_data]

\* impl From<ImageFrame<Color>> for GraphicElement: the png is encoded into
\* base64_string when the image holds data
From_ImageFrame(image_frame) ==
    [kind |-> "ImageFrame",
     image_frame |->
        IF image_frame.image.data_len # 0
        THEN [image_frame EXCEPT !.image.base64_string = "data:image/png;base64"]
        ELSE image_frame]

\* impl From<GraphicGroup> for GraphicElement
From_GraphicGroup(graphic_group) == [kind |-> "GraphicGroup", group |-> graphic_group]

\* impl From<Artboard> for GraphicElement
From_Artboard(artboard) == [kind |-> "Artboard", artboard |-> artboard]

\* impl Default for GraphicElement
GraphicElement_default == From_VectorData(VectorData_empty)

\* Artboard::new without its arithmetic (location and dimensions as given)
ArtboardOf(graphic_group, label, location, dimensions, background, clip) ==
    [graphic_group |-> graphic_group, label |-> label, location |-> location,
     dimensions |-> dimensions, background |-> background, clip |-> clip]


\* the conversion into() of a node's output Data: Into<GraphicElement>
Into_GraphicElement(d) ==
    CASE d.data = "VectorData" -> From_VectorData(d.value)
      [] d.data = "ImageFrame" -> From_ImageFrame(d.value)
      [] d.data = "GraphicGroup" -> From_GraphicGroup(d.value)
      [] d.data = "Artboard" -> From_Artboard(d.value)

---------------------------------------------------------------------------
(* The values the element sub-nodes of the model produce *)

Subpath1 ==
    [start |-> <<0, 0>>,
     beziers |-> <<[handles |-> "Linear", end |-> <<1, 0>>],
                   [handles |-> "Cubic", end |-> <<1, 1>>]>>,
     closed |-> TRUE]

VectorShape == [subpaths |-> <<Subpath1>>, transform |-> from_translation(<<2, 3>>)]

ImageOf(w, h, n) ==
    [width |-> U32(w), height |-> U32(h), data_len |-> n, base64_string |-> "None"]

ImageFrameOf(image) ==
    [image |-> image, transform |-> DAffine2_IDENTITY,
     alpha_blending |-> AlphaBlending_new]

NestedGroup ==
    [GraphicGroup_EMPTY EXCEPT
        !.elements = <<From_VectorData(VectorShape),
                       From_ImageFrame(ImageFrameOf(ImageOf(2, 2, 4)))>>]

PlainArtboard ==
    ArtboardOf(GraphicGroup_EMPTY, "Artboard", <<0, 0>>, <<5, 5>>, "WHITE", FALSE)

LayerInputs ==
    { [data |-> "VectorData", value |-> VectorData_empty],
      [data |-> "VectorData", value |-> VectorShape],
      [data |-> "ImageFrame", value |-> ImageFrameOf(ImageOf(0, 2, 0))],
      [data |-> "ImageFrame", value |-> ImageFrameOf(ImageOf(2, 2, 4))],
      [data |-> "ImageFrame", value |-> ImageFrameOf(ImageOf(65536, 65536, 0))],
      [data |-> "GraphicGroup", value |-> GraphicGroup_EMPTY],
      [data |-> "GraphicGroup", value |-> NestedGroup],
      [data |-> "Artboard", value |-> PlainArtboard] }

Elements == { Into_GraphicElement(d) : d \in LayerInputs }

---------------------------------------------------------------------------
(* Layer construction *)

\* a construct_layer that puts the new element first
construct_layer_prepend(footprint, stack_out, element_out) ==
    [stack_out EXCEPT !.elements = <<Into_GraphicElement(element_out)>> \o @]

\* construct_layer: the element sub-node is evaluated, then the stack
\* sub-node, both with the caller's footprint; the element is pushed
construct_layer(footprint, stack_out, element_out) ==
    GraphicGroup_push(stack_out, Into_GraphicElement(element_out))

ConstructLayer(d) ==
    /\ Len(stack.elements) < MaxLayers
    /\ LET out == construct_layer(callerFootprint, stack, d)
       IN /\ layerCall' = [footprint |-> callerFootprint, stack_in |-> stack,
                           element |-> Into_GraphicElement(d), out |-> out]
          /\ stack' = out
          /\ appended' = Append(appended, Into_GraphicElement(d))
    /\ UNCHANGED <<overflow_checks, lowered, artVars, anyVars, composeVars>>

---------------------------------------------------------------------------
(* Lowering to usvg *)

Panic(msg) == [panic |-> msg]
IsPanic(r) == "panic" \in DOMAIN r

usvg_Group_default == [node |-> "Group", children |-> <<>>]

\* the first panic among the results of a loop's iterations, or None
FirstPanic(rs) ==
    IF \E i \in 1..Len(rs) : IsPanic(rs[i])
    THEN rs[CHOOSE i \in 1..Len(rs) :
                /\ IsPanic(rs[i])
                /\ \A j \in 1..(i - 1) : ~IsPanic(rs[j])]
    ELSE None

\* the verbs the PathBuilder receives for one subpath: only the start anchor
\* is transformed, the result of bezier.apply_transformation is dropped
SubpathVerbs(subpath, transform) ==
    <<[verb |-> "move_to", to |-> transform_point2(transform, subpath.start)]>>
    \o [i \in 1..Len(subpath.beziers) |->
          [verb |-> CASE subpath.beziers[i].handles = "Linear" -> "line_to"
                      [] subpath.beziers[i].handles = "Quadratic" -> "quad_to"
                      [] subpath.beziers[i].handles = "Cubic" -> "cubic_to",
           to |-> subpath.beziers[i].end]]
    \o (IF subpath.closed THEN <<[verb |-> "close"]>> ELSE <<>>)

RECURSIVE PathVerbs(_, _)
PathVerbs(subpaths, transform) ==
    IF subpaths = <<>> THEN <<>>
    ELSE SubpathVerbs(Head(subpaths), transform) \o PathVerbs(Tail(subpaths), transform)

\* tiny_skia_path::PathBuilder::finish: None for a path with no verb or with
\* a lone move_to
PathBuilder_finish(verbs) ==
    IF Len(verbs) <= 1 THEN None ELSE [verbs |-> verbs]

\* the VectorData arm of to_usvg_node
VectorData_to_usvg_node(vector_data) ==
    LET path == PathBuilder_finish(PathVerbs(vector_data.subpaths, vector_data.transform))
    IN IF path = None
       THEN Panic("unwrap on None")
       ELSE [node |-> "Path", data |-> path.verbs,
             abs_transform |-> to_transform(vector_data.transform),
             fill |-> "None", stroke |-> "Stroke::default"]

\* the ImageFrame arm of to_usvg_node
ImageFrame_to_usvg_node(image_frame, checks) ==
    IF checks /\ MulU32Overflows(image_frame.image.width, image_frame.image.height)
    THEN Panic("attempt to multiply with overflow")
    ELSE IF MulU32(image_frame.image.width, image_frame.image.height) = U32(0)
    THEN usvg_Group_default
    ELSE [node |-> "Image",
          abs_transform |-> to_transform(image_frame.transform),
          kind |-> [png |-> <<image_frame.image.width, image_frame.image.height>>]]

\* GraphicElement::to_usvg_node
RECURSIVE to_usvg_node(_, _)
to_usvg_node(element, checks) ==
    CASE element.kind = "VectorData" -> VectorData_to_usvg_node(element.vector_data)
      [] element.kind = "ImageFrame" -> ImageFrame_to_usvg_node(element.image_frame, checks)
      [] element.kind = "GraphicGroup" ->
            LET children == [i \in 1..Len(element.group.elements) |->
                                to_usvg_node(element.group.elements[i], checks)]
            IN IF FirstPanic(children) # None THEN FirstPanic(children)
               ELSE [usvg_Group_default EXCEPT !.children = children]
      [] element.kind = "Artboard" -> usvg_Group_default

\* usvg::Size::from_wh: both extents must be positive
Size_from_wh(resolution) ==
    IF resolution[1] > 0 /\ resolution[2] > 0 THEN [size |-> resolution] ELSE None

\* usvg::NonZeroRect::from_ltrb: the rectangle must have a positive area
NonZeroRect_from_ltrb(viewbox) ==
    IF viewbox[1][1] < viewbox[2][1] /\ viewbox[1][2] < viewbox[2][2]
    THEN [rect |-> viewbox] ELSE None

\* GraphicGroup::to_usvg_tree.  The tree takes a clone of root_node before
\* the loop pushes the lowered elements into root_node; root_node is the
\* value of the local when the function returns.
to_usvg_tree(group, resolution, viewbox, checks) ==
    LET root_node0 == usvg_Group_default
        children == [i \in 1..Len(group.elements) |->
                        to_usvg_node(group.elements[i], checks)]
    IN IF Size_from_wh(resolution) = None \/ NonZeroRect_from_ltrb(viewbox) = None
       THEN Panic("unwrap on None")
       ELSE IF FirstPanic(children) # None THEN FirstPanic(children)
       ELSE [tree |-> [size |-> resolution, view_box |-> viewbox, root |-> root_node0],
             root_node |-> [root_node0 EXCEPT !.children = children]]

Resolutions == { <<0, 2>>, <<2, 2>> }
Viewboxes == { <<<<0, 0>>, <<0, 0>>>>, <<<<0, 0>>, <<2, 2>>>> }

ToUsvgTree(resolution, viewbox) ==
    /\ lowered' = [op |-> "to_usvg_tree", of |-> stack, resolution |-> resolution,
                   viewbox |-> viewbox,
                   result |-> to_usvg_tree(stack, resolution, viewbox, overflow_checks)]
    /\ UNCHANGED <<overflow_checks, stack, appended, layerCall, artVars, anyVars, composeVars>>

ToUsvgNode(element) ==
    /\ lowered' = [op |-> "to_usvg_node", of |-> element,
                   result |-> to_usvg_node(element, overflow_checks)]
    /\ UNCHANGED <<overflow_checks, stack, appended, layerCall, artVars, anyVars, composeVars>>

---------------------------------------------------------------------------
(* Artboards *)

\* IVec2 + IVec2, component-wise i32 addition
IVec2_add(a, b) == <<AddI32(a[1], b[1]), AddI32(a[2], b[2])>>

IVec2_add_overflows(a, b) == AddI32Overflows(a[1], b[1]) \/ AddI32Overflows(a[2], b[2])

\* IVec2::min, component-wise
IVec2_min(a, b) == <<MinInt(a[1], b[1]), MinInt(a[2], b[2])>>

\* IVec2::abs, component-wise
IVec2_abs(a) == <<AbsI32(a[1]), AbsI32(a[2])>>

IVec2_abs_overflows(a) == AbsI32Overflows(a[1]) \/ AbsI32Overflows(a[2])

\* the field initializer `location: location.min(location + dimensions)`
NormalizedLocation(location, dimensions) ==
    IVec2_min(location, IVec2_add(location, dimensions))

\* the field initializer `dimensions: dimensions.abs()`
NormalizedDimensions(dimensions) == IVec2_abs(dimensions)

\* the struct literal shared by Artboard::new and construct_artboard: the
\* fields are computed in the order written, location before dimensions
NormalizedArtboard(graphic_group, label, location, dimensions, background, clip, checks) ==
    IF checks /\ IVec2_add_overflows(location, dimensions)
    THEN Panic("attempt to add with overflow")
    ELSE IF checks /\ IVec2_abs_overflows(dimensions)
    THEN Panic("attempt to negate with overflow")
    ELSE ArtboardOf(graphic_group, label,
                    NormalizedLocation(location, dimensions),
                    NormalizedDimensions(dimensions), background, clip)

\* Artboard::new
Artboard_new(location, dimensions, checks) ==
    NormalizedArtboard(GraphicGroup_EMPTY, "Artboard", location, dimensions,
                       "WHITE", FALSE, checks)

\* a footprint translated on the wrong side: translation * transform
ContentsFootprint_premultiplied(footprint, location) ==
    [footprint EXCEPT !.transform = AffineMul(from_translation(location), @)]

\* the footprint construct_artboard hands to its contents sub-node:
\* footprint.transform *= DAffine2::from_translation(location.as_dvec2())
ContentsFootprint(footprint, location) ==
    [footprint EXCEPT !.transform = AffineMul(@, from_translation(location))]

\* the contents sub-node of the model: one layer holding a shape
ContentsNode(footprint) == GraphicGroup_push(GraphicGroup_EMPTY, From_VectorData(VectorShape))

\* construct_artboard: `seen` are the footprints the contents sub-node was
\* evaluated with, `footprint` is the value of the parameter (the callee's own
\* copy) when the function returns or panics
construct_artboard(footprint, label, location, dimensions, background, clip, checks) ==
    LET footprint1 == ContentsFootprint(footprint, location)
        graphic_group == ContentsNode(footprint1)
    IN [seen |-> <<footprint1>>,
        footprint |-> footprint1,
        result |-> NormalizedArtboard(graphic_group, label, location, dimensions,
                                      background, clip, checks)]

\* the default footprint: identity transform
Footprint_default == [transform |-> DAffine2_IDENTITY, resolution |-> <<2, 2>>]

Footprints ==
    { Footprint_default,
      [transform |-> [matrix2 |-> <<0, 2, -2, 0>>, translation |-> <<3, 4>>],
       resolution |-> <<1920, 1080>>] }

Locations == { <<10, 10>>, <<0, 0>>, <<-3, 7>> }
Dimensions == { <<-5, -5>>, <<5, 0>>, <<I32Max, 1>>, <<I32Min, 5>> }

ConstructArtboard(location, dimensions) ==
    /\ LET r == construct_artboard(callerFootprint, "Page", location, dimensions,
                                   "BLACK", TRUE, overflow_checks)
       IN abCall' = [op |-> "construct_artboard", footprint |-> callerFootprint,
                     location |-> location, dimensions |-> dimensions,
                     seen |-> r.seen, result |-> r.result]
    /\ UNCHANGED <<overflow_checks, layerVars, callerFootprint, artboards, added, flat,
                   anyVars, composeVars>>

ArtboardNew(location, dimensions) ==
    /\ abCall' = [op |-> "Artboard::new", footprint |-> callerFootprint,
                  location |-> location, dimensions |-> dimensions,
                  seen |-> <<>>,
                  result |-> Artboard_new(location, dimensions, overflow_checks)]
    /\ UNCHANGED <<overflow_checks, layerVars, callerFootprint, artboards, added, flat,
                   anyVars, composeVars>>

ArtboardGroup_EMPTY == [artboards |-> <<>>]

\* ArtboardGroup::add_artboard: Vec::push
ArtboardGroup_add_artboard(group, artboard) ==
    [group EXCEPT !.artboards = Append(@, artboard)]

\* the loop of get_graphic_group over a clone of the artboards
RECURSIVE PushArtboards(_, _)
PushArtboards(graphic_group, rest) ==
    IF rest = <<>> THEN graphic_group
    ELSE PushArtboards(GraphicGroup_push(graphic_group, From_Artboard(Head(rest))),
                       Tail(rest))

\* ArtboardGroup::get_graphic_group(&self)
get_graphic_group(group) == PushArtboards(GraphicGroup_EMPTY, group.artboards)

\* an add_artboard that puts the new artboard first
add_artboard_prepend(footprint, artboards_out, artboard_out) ==
    [artboards_out EXCEPT !.artboards = <<artboard_out>> \o @]

\* add_artboard: the artboard sub-node is evaluated, then the artboards
\* sub-node; the artboard (Into<Artboard> of an Artboard: itself) goes last
add_artboard(footprint, artboards_out, artboard_out) ==
    ArtboardGroup_add_artboard(artboards_out, artboard_out)

\* the artboards the artboard sub-nodes of the model produce
ArtboardInputs ==
    { Artboard_new(<<10, 10>>, <<-5, -5>>, FALSE),
      Artboard_new(<<0, 0>>, <<5, 5>>, FALSE),
      ArtboardOf(NestedGroup, "Page", <<1, 2>>, <<3, 4>>, "BLACK", TRUE) }

AddArtboard(a) ==
    /\ Len(artboards.artboards) < MaxArtboards
    /\ artboards' = add_artboard(callerFootprint, artboards, a)
    /\ added' = Append(added, a)
    /\ UNCHANGED <<overflow_checks, layerVars, callerFootprint, abCall, flat,
                   anyVars, composeVars>>

GetGraphicGroup ==
    /\ flat' = [of |-> artboards, result |-> get_graphic_group(artboards)]
    /\ UNCHANGED <<overflow_checks, layerVars, callerFootprint, abCall, artboards, added,
                   anyVars, composeVars>>

---------------------------------------------------------------------------
(* Opaque values and the type-erasure adapters *)

\* Any: a boxed value with its runtime type.  `ref` tells a boxed reference
\* (Box<&T>) from a boxed value (Box<T>); every payload is a tuple of numbers
\* (the unit value is the empty tuple).
Box(ref, type, val) == [ref |-> ref, type |-> type, val |-> val]

Unit == <<>>

\* dyn_any::downcast::<T>(input): the payload when the runtime type is T
downcast(input, ref, type) ==
    IF input.ref = ref /\ input.type = type
    THEN [ok |-> input.val]
    ELSE [err |-> [expected |-> <<ref, type>>, got |-> <<input.ref, input.type>>]]

IsOk(r) == "ok" \in DOMAIN r

\* the declared input types _I of the adapters of the model
InputTypes == { "unit", "u32", "pair" }

\* the wrapped node N for each declared input type: a node that ignores its
\* unit input, IdentityNode, AddPairNode (the nodes of the tests)
WrappedNode_eval(I, v) ==
    CASE I = "unit" -> <<7>>
      [] I = "u32" -> v
      [] I = "pair" -> <<v[1] + v[2]>>

\* core::any::type_name::<N>()
type_name(I) ==
    CASE I = "unit" -> "ValueNode"
      [] I = "u32" -> "FutureWrapperNode<IdentityNode>"
      [] I = "pair" -> "FutureWrapperNode<AddPairNode>"

\* no evaluation yet
IdleCall == [pc |-> "idle"]

\* an evaluation that went as far as returning its future
Pending(arg, invoked) ==
    [pc |-> "pending", arg |-> arg, invoked |-> invoked, out |-> None, panic |-> None]

\* an evaluation that panicked in eval
Panicked(adapter, err, node_name) ==
    [pc |-> "panicked", arg |-> None, invoked |-> <<>>, out |-> None,
     panic |-> [adapter |-> adapter, err |-> err, node_name |-> node_name]]

\* a DynAnyNode::eval without the arm for the unit input type
DynAnyNode_eval_strict(I, input) ==
    LET r == downcast(input, FALSE, I)
    IN IF IsOk(r) THEN Pending(r.ok, <<>>)
       ELSE Panicked("DynAnyNode Input", r.err, type_name(I))

\* DynAnyNode::eval: the downcast and its two failure arms; the wrapped node
\* is invoked when the returned future is awaited
DynAnyNode_eval(I, input) ==
    LET r == downcast(input, FALSE, I)
    IN IF IsOk(r) THEN Pending(r.ok, <<>>)
       ELSE IF I = "unit" THEN Pending(Unit, <<>>)
       ELSE Panicked("DynAnyNode Input", r.err, type_name(I))

\* the future of DynAnyNode::eval: self.node.eval(input).await, boxed
DynAnyNode_await(I, c) ==
    [c EXCEPT !.pc = "done",
              !.invoked = Append(@, c.arg),
              !.out = Box(FALSE, "u32", WrappedNode_eval(I, c.arg))]

\* DynAnyRefNode::eval: downcast to Box<_I> or panic; the wrapped node is
\* invoked in eval, its reference result is boxed by the future
DynAnyRefNode_eval(I, input) ==
    LET r == downcast(input, FALSE, I)
    IN IF IsOk(r) THEN Pending(WrappedNode_eval(I, r.ok), <<r.ok>>)
       ELSE Panicked("DynAnyRefNode Input", r.err, type_name(I))

DynAnyRefNode_await(I, c) ==
    [c EXCEPT !.pc = "done", !.out = Box(TRUE, "u32", c.arg)]

\* a DynAnyInRefNode::eval with the unit arm of DynAnyNode::eval
DynAnyInRefNode_eval_lenient(I, input) ==
    LET r == downcast(input, TRUE, I)
    IN IF IsOk(r) THEN Pending(r.ok, <<r.ok>>)
       ELSE IF I = "unit" THEN Pending(Unit, <<Unit>>)
       ELSE Panicked("DynAnyInRefNode Input", r.err, type_name(I))

\* DynAnyInRefNode::eval: downcast to Box<&_I> or panic; the wrapped node is
\* invoked in eval and its future is awaited by the returned future
DynAnyInRefNode_eval(I, input) ==
    LET r == downcast(input, TRUE, I)
    IN IF IsOk(r) THEN Pending(r.ok, <<r.ok>>)
       ELSE Panicked("DynAnyInRefNode Input", r.err, type_name(I))

DynAnyInRefNode_await(I, c) ==
    [c EXCEPT !.pc = "done", !.out = Box(FALSE, "u32", WrappedNode_eval(I, c.arg))]

DynAdapters == { "DynAnyNode", "DynAnyRefNode", "DynAnyInRefNode" }

Adapter_eval(adapter, I, input) ==
    CASE adapter = "DynAnyNode" -> DynAnyNode_eval(I, input)
      [] adapter = "DynAnyRefNode" -> DynAnyRefNode_eval(I, input)
      [] adapter = "DynAnyInRefNode" -> DynAnyInRefNode_eval(I, input)

Adapter_await(adapter, I, c) ==
    CASE adapter = "DynAnyNode" -> DynAnyNode_await(I, c)
      [] adapter = "DynAnyRefNode" -> DynAnyRefNode_await(I, c)
      [] adapter = "DynAnyInRefNode" -> DynAnyInRefNode_await(I, c)

\* the opaque inputs of the model: boxed values and boxed references
OpaqueInputs ==
    { Box(FALSE, "unit", Unit), Box(FALSE, "u32", <<5>>), Box(FALSE, "pair", <<4, 2>>),
      Box(FALSE, "u32", <<9>>), Box(FALSE, "pair", <<1, 2>>),
      Box(TRUE, "unit", Unit), Box(TRUE, "u32", <<5>>), Box(TRUE, "pair", <<4, 2>>),
      Box(TRUE, "u32", <<9>>), Box(TRUE, "str_pair", <<32, 32>>) }

\* a caller evaluates an adapter on an opaque input
Eval(adapter, I, input) ==
    /\ call.pc \in {"idle", "done", "panicked"}
    /\ call' = [adapter |-> adapter, I |-> I, input |-> input]
               @@ Adapter_eval(adapter, I, input)
    /\ UNCHANGED <<overflow_checks, layerVars, artVars, cache, lifecycle, composeVars>>

\* the caller awaits the future the adapter returned
Await ==
    /\ call.pc = "pending"
    /\ call' = Adapter_await(call.adapter, call.I, call)
    /\ UNCHANGED <<overflow_checks, layerVars, artVars, cache, lifecycle, composeVars>>

---------------------------------------------------------------------------
(* Lifecycle operations: reset and serialize *)

\* a memoizing node: it keeps the first value it produced until it is reset
MemoNode_eval(c, x) ==
    IF c = None THEN [out |-> x, cache |-> [value |-> x]]
    ELSE [out |-> c.value, cache |-> c]

MemoNode_reset(c) == None

\* the snapshot a wrapped node gives of its retained parameters
MemoNode_serialize(slot) == [some |-> slot]

\* Node::reset and Node::serialize of an impl that defines neither: the
\* trait's provided methods, which know nothing of the wrapped node
Node_reset_default(c) == c

Node_serialize_default == None

Slots == { "node", "first", "second" }

\* self.node.reset()
ForwardReset(c, slots) ==
    [s \in Slots |-> IF s \in slots THEN MemoNode_reset(c[s]) ELSE c[s]]

DynAnyNode_reset(c) == ForwardReset(c, {"node"})
DynAnyNode_serialize == MemoNode_serialize("node")

DynAnyRefNode_reset(c) == ForwardReset(c, {"node"})
DynAnyRefNode_serialize == MemoNode_serialize("node")

FutureWrapperNode_reset(c) == ForwardReset(c, {"node"})
FutureWrapperNode_serialize == MemoNode_serialize("node")

\* impls with eval alone
DynAnyInRefNode_reset(c) == Node_reset_default(c)
DynAnyInRefNode_serialize == Node_serialize_default

DowncastBothNode_reset(c) == Node_reset_default(c)
DowncastBothNode_serialize == Node_serialize_default

DowncastBothRefNode_reset(c) == Node_reset_default(c)
DowncastBothRefNode_serialize == Node_serialize_default

ComposeTypeErased_reset(c) == Node_reset_default(c)
ComposeTypeErased_serialize == Node_serialize_default

AdapterKinds ==
    { "DynAnyNode", "DynAnyRefNode", "DynAnyInRefNode", "FutureWrapperNode",
      "DowncastBothNode", "DowncastBothRefNode", "ComposeTypeErased" }

\* the nodes an adapter wraps
Wrapped(k) == IF k = "ComposeTypeErased" THEN {"first", "second"} ELSE {"node"}

Adapter_reset(k, c) ==
    CASE k = "DynAnyNode" -> DynAnyNode_reset(c)
      [] k = "DynAnyRefNode" -> DynAnyRefNode_reset(c)
      [] k = "DynAnyInRefNode" -> DynAnyInRefNode_reset(c)
      [] k = "FutureWrapperNode" -> FutureWrapperNode_reset(c)
      [] k = "DowncastBothNode" -> DowncastBothNode_reset(c)
      [] k = "DowncastBothRefNode" -> DowncastBothRefNode_reset(c)
      [] k = "ComposeTypeErased" -> ComposeTypeErased_reset(c)

Adapter_serialize(k) ==
    CASE k = "DynAnyNode" -> DynAnyNode_serialize
      [] k = "DynAnyRefNode" -> DynAnyRefNode_serialize
      [] k = "DynAnyInRefNode" -> DynAnyInRefNode_serialize
      [] k = "FutureWrapperNode" -> FutureWrapperNode_serialize
      [] k = "DowncastBothNode" -> DowncastBothNode_serialize
      [] k = "DowncastBothRefNode" -> DowncastBothRefNode_serialize
      [] k = "ComposeTypeErased" -> ComposeTypeErased_serialize

\* an evaluation through adapter k of the memoizing node(s) it wraps
Adapter_eval_memo(k, c, x) ==
    IF k = "ComposeTypeErased"
    THEN LET r1 == MemoNode_eval(c["first"], x)
             r2 == MemoNode_eval(c["second"], r1.out)
         IN [out |-> r2.out,
             cache |-> [c EXCEPT !["first"] = r1.cache, !["second"] = r2.cache]]
    ELSE LET r == MemoNode_eval(c["node"], x)
         IN [out |-> r.out, cache |-> [c EXCEPT !["node"] = r.cache]]

MemoInputs == { 1, 2 }

Reset(k) ==
    /\ cache' = Adapter_reset(k, cache)
    /\ lifecycle' = [op |-> "reset", adapter |-> k, before |-> cache]
    /\ UNCHANGED <<overflow_checks, layerVars, artVars, call, composeVars>>

Serialize(k) ==
    /\ lifecycle' = [op |-> "serialize", adapter |-> k, out |-> Adapter_serialize(k)]
    /\ UNCHANGED <<overflow_checks, layerVars, artVars, call, cache, composeVars>>

\* after_reset: the evaluation follows a reset issued on the same adapter
EvalMemo(k, x) ==
    /\ cache' = Adapter_eval_memo(k, cache, x).cache
    /\ lifecycle' = [op |-> "eval", adapter |-> k, input |-> x,
                     out |-> Adapter_eval_memo(k, cache, x).out,
                     after_reset |-> /\ lifecycle.op = "reset"
                                     /\ lifecycle.adapter = k]
    /\ UNCHANGED <<overflow_checks, layerVars, artVars, call, composeVars>>

---------------------------------------------------------------------------
(* ComposeTypeErased *)

\* the shared nodes of the composition of the test dyn_input_compose:
\* first = DynAnyNode<(u32, u32), u32>(AddPairNode), second = DynAnyNode<u32, u32>(IdentityNode)
FirstType == "pair"
SecondType == "u32"

IdleFlow == [pc |-> "idle", input |-> None, first |-> None, second |-> None, result |-> None]

\* ComposeTypeErased::eval: the async block is boxed, nothing has run
Compose_eval(input) == [IdleFlow EXCEPT !.pc = "created", !.input = input]

\* the first poll: self.first.eval(input), then the await
Compose_poll(fl) ==
    LET c == DynAnyNode_eval(FirstType, fl.input)
    IN [fl EXCEPT !.first = c,
                  !.pc = IF c.pc = "panicked" THEN "panicked" ELSE "await_first"]

\* a composition that hands its own input to the second node
Compose_first_ready_input(fl) ==
    LET c1 == DynAnyNode_await(FirstType, fl.first)
        c2 == [input |-> fl.input] @@ DynAnyNode_eval(SecondType, fl.input)
    IN [fl EXCEPT !.first = c1, !.second = c2,
                  !.pc = IF c2.pc = "panicked" THEN "panicked" ELSE "await_second"]

\* the first future completes with arg; self.second.eval(arg), then the await
Compose_first_ready(fl) ==
    LET c1 == DynAnyNode_await(FirstType, fl.first)
        c2 == [input |-> c1.out] @@ DynAnyNode_eval(SecondType, c1.out)
    IN [fl EXCEPT !.first = c1, !.second = c2,
                  !.pc = IF c2.pc = "panicked" THEN "panicked" ELSE "await_second"]

\* the second future completes: its output is the output of the block
Compose_second_ready(fl) ==
    LET c2 == DynAnyNode_await(SecondType, fl.second)
    IN [fl EXCEPT !.second = c2, !.result = c2.out, !.pc = "done"]

ComposeInputs ==
    { Box(FALSE, "pair", <<4, 2>>), Box(FALSE, "pair", <<1, 2>>),
      Box(TRUE, "str_pair", <<32, 32>>) }

ComposeEval(f, input) ==
    /\ flows[f].pc \in {"idle", "done", "panicked"}
    /\ flows' = [flows EXCEPT ![f] = Compose_eval(input)]
    /\ UNCHANGED <<overflow_checks, layerVars, artVars, anyVars>>

ComposePoll(f) ==
    /\ flows[f].pc = "created"
    /\ flows' = [flows EXCEPT ![f] = Compose_poll(flows[f])]
    /\ UNCHANGED <<overflow_checks, layerVars, artVars, anyVars>>

ComposeFirstReady(f) ==
    /\ flows[f].pc = "await_first"
    /\ flows' = [flows EXCEPT ![f] = Compose_first_ready(flows[f])]
    /\ UNCHANGED <<overflow_checks, layerVars, artVars, anyVars>>

ComposeSecondReady(f) ==
    /\ flows[f].pc = "await_second"
    /\ flows' = [flows EXCEPT ![f] = Compose_second_ready(flows[f])]
    /\ UNCHANGED <<overflow_checks, layerVars, artVars, anyVars>>

---------------------------------------------------------------------------
(* Specifications *)

InitLayer ==
    /\ stack = GraphicGroup_EMPTY
    /\ appended = <<>>
    /\ layerCall = None
    /\ lowered = NoCall

InitArt ==
    /\ abCall = NoCall
    /\ artboards = ArtboardGroup_EMPTY
    /\ added = <<>>
    /\ flat = None

InitAny ==
    /\ call = IdleCall
    /\ cache = [s \in Slots |-> None]
    /\ lifecycle = NoCall

InitCompose == flows = [f \in 1..NumFlows |-> IdleFlow]

Init ==
    /\ overflow_checks \in BOOLEAN
    /\ callerFootprint \in Footprints
    /\ InitLayer /\ InitArt /\ InitAny /\ InitCompose

\* layer construction and lowering
InitLayerSpec ==
    /\ overflow_checks \in BOOLEAN
    /\ callerFootprint = Footprint_default
    /\ InitLayer /\ InitArt /\ InitAny /\ InitCompose

NextLayer ==
    \/ \E d \in LayerInputs : ConstructLayer(d)
    \/ \E r \in Resolutions, v \in Viewboxes : ToUsvgTree(r, v)
    \/ \E e \in Elements : ToUsvgNode(e)

SpecLayer == InitLayerSpec /\ [][NextLayer]_vars

\* artboard construction, accumulation and flattening
NextArtboard ==
    \/ \E l \in Locations, d \in Dimensions : ConstructArtboard(l, d)
    \/ \E l \in Locations, d \in Dimensions : ArtboardNew(l, d)
    \/ \E a \in ArtboardInputs : AddArtboard(a)
    \/ GetGraphicGroup

SpecArtboard == Init /\ [][NextArtboard]_vars

\* the specifications of the adapters do no machine arithmetic and pass no
\* footprint
InitAnySpec ==
    /\ overflow_checks = FALSE
    /\ callerFootprint = Footprint_default
    /\ InitLayer /\ InitArt /\ InitAny /\ InitCompose

\* evaluation through the DynAny adapters
NextAdapter ==
    \/ \E a \in DynAdapters, I \in InputTypes, x \in OpaqueInputs : Eval(a, I, x)
    \/ Await

SpecAdapter == InitAnySpec /\ [][NextAdapter]_vars

\* reset, serialize and evaluation of adapters around memoizing nodes
NextLifecycle ==
    \/ \E k \in AdapterKinds : Reset(k)
    \/ \E k \in AdapterKinds : Serialize(k)
    \/ \E k \in AdapterKinds, x \in MemoInputs : EvalMemo(k, x)

SpecLifecycle == InitAnySpec /\ [][NextLifecycle]_vars

\* interleaved evaluations of one shared composition
NextCompose ==
    \E f \in 1..NumFlows :
        \/ \E x \in ComposeInputs : ComposeEval(f, x)
        \/ ComposePoll(f)
        \/ ComposeFirstReady(f)
        \/ ComposeSecondReady(f)

SpecCompose == InitAnySpec /\ [][NextCompose]_vars

Next == NextLayer \/ NextArtboard \/ NextAdapter \/ NextLifecycle \/ NextCompose

Spec == Init /\ [][Next]_vars

---------------------------------------------------------------------------
(* Properties *)

\* C1: one evaluation of construct_layer returns the stack's elements in
\* their order followed by the new element (one element more), and the group
\* built by successive layer constructions from the empty group holds the
\* appended elements in append order.
C1_LayerOrderPreserved ==
    /\ stack.elements = appended
    /\ layerCall # None =>
          LET n == Len(layerCall.stack_in.elements)
          IN /\ Len(layerCall.out.elements) = n + 1
             /\ \A i \in 1..n : layerCall.out.elements[i] = layerCall.stack_in.elements[i]
             /\ layerCall.out.elements[n + 1] = layerCall.element

\* two different elements were appended, one after the other
C1_Witness ==
    /\ Len(appended) = 2
    /\ appended[1] # appended[2]
    /\ layerCall # None
    /\ Len(layerCall.stack_in.elements) = 1

\* the absolute value of the requested extent d, as a mathematical integer
IsAbsOf(r, d) == r >= 0 /\ (r = d \/ (d < 0 /\ r + d = 0))

\* the smaller of l and l + d, as mathematical integers
IsMinCorner(r, l, d) ==
    IF d >= 0 THEN r = l ELSE ~AddI32Overflows(l, d) /\ r = l + d

\* C2: for every location and dimensions, Artboard::new and
\* construct_artboard produce an artboard whose dimensions are the absolute
\* values of the requested ones and whose location is the component-wise
\* minimum of location and location + dimensions.
C2_ArtboardNormalized ==
    abCall.op # "none" =>
        /\ ~IsPanic(abCall.result)
        /\ \A i \in 1..2 :
              /\ abCall.result.dimensions[i] >= 0
              /\ IsAbsOf(abCall.result.dimensions[i], abCall.dimensions[i])
              /\ IsMinCorner(abCall.result.location[i], abCall.location[i],
                             abCall.dimensions[i])

\* C2 on the requests whose arithmetic fits an i32 (the example of the
\* specification among them)
C2_NormalizedInRange ==
    (/\ abCall.op # "none"
     /\ ~IVec2_add_overflows(abCall.location, abCall.dimensions)
     /\ ~IVec2_abs_overflows(abCall.dimensions)) =>
        /\ ~IsPanic(abCall.result)
        /\ \A i \in 1..2 :
              /\ IsAbsOf(abCall.result.dimensions[i], abCall.dimensions[i])
              /\ IsMinCorner(abCall.result.location[i], abCall.location[i],
                             abCall.dimensions[i])

\* the opaque input of the call carries the type the adapter recovers
CallMatches(ref) == call.input.ref = ref /\ call.input.type = call.I

\* C3: DynAnyNode::eval invokes the wrapped node with the recovered value and
\* returns its output boxed when the input's runtime type matches; on a
\* mismatch with a declared input type other than unit it panics, the wrapped
\* node is never invoked and nothing is returned; on a mismatch with the unit
\* input type it succeeds with the result of the wrapped node on the unit value.
C3_FaultLocality ==
    (call.pc # "idle" /\ call.adapter = "DynAnyNode") =>
        /\ CallMatches(FALSE) =>
              /\ call.pc \in {"pending", "done"}
              /\ call.pc = "done" =>
                    /\ call.invoked = <<call.input.val>>
                    /\ call.out = Box(FALSE, "u32", WrappedNode_eval(call.I, call.input.val))
        /\ (~CallMatches(FALSE) /\ call.I # "unit") =>
              /\ call.pc = "panicked"
              /\ call.invoked = <<>>
              /\ call.out = None
              /\ call.panic.node_name = type_name(call.I)
        /\ (~CallMatches(FALSE) /\ call.I = "unit") =>
              /\ call.pc \in {"pending", "done"}
              /\ call.pc = "done" =>
                    /\ call.invoked = <<Unit>>
                    /\ call.out = Box(FALSE, "u32", WrappedNode_eval("unit", Unit))

\* a wrong value fed to an adapter of unit input type was evaluated to the end
C3_Witness ==
    /\ call.pc = "done"
    /\ call.adapter = "DynAnyNode"
    /\ call.I = "unit"
    /\ call.input.type = "str_pair"

\* C4: in every evaluation of the composition the second node is invoked
\* only once the first node's future has completed, it receives exactly the
\* first node's result, and the composition's result is the second node's
\* result, second(first(x)); for every flow, however the flows interleave.
C4_StrictSequencing ==
    \A f \in 1..NumFlows :
        /\ flows[f].second # None =>
              /\ flows[f].first # None
              /\ flows[f].first.pc = "done"
              /\ flows[f].second.input = flows[f].first.out
        /\ flows[f].pc = "done" =>
              /\ flows[f].result = flows[f].second.out
              /\ flows[f].second.invoked = <<flows[f].first.out.val>>
              /\ flows[f].first.invoked = <<flows[f].input.val>>
              /\ flows[f].result =
                    Box(FALSE, "u32", <<flows[f].input.val[1] + flows[f].input.val[2]>>)

\* one flow has finished while another, with another input, awaits the first node
C4_Witness ==
    /\ flows[1].pc = "done"
    /\ flows[2].pc = "await_first"
    /\ flows[1].input # flows[2].input

\* C5: a reset issued on any adapter resets every node it wraps, serialize on
\* an adapter returns what the wrapped node's serialize returns, and an
\* evaluation that follows a reset observes no value cached before it.
C5_AdaptersForwardLifecycle ==
    /\ lifecycle.op = "reset" =>
          \A n \in Wrapped(lifecycle.adapter) : cache[n] = None
    /\ (lifecycle.op = "serialize" /\ Wrapped(lifecycle.adapter) = {"node"}) =>
          lifecycle.out = MemoNode_serialize("node")
    /\ (lifecycle.op = "eval" /\ lifecycle.after_reset) =>
          lifecycle.out = lifecycle.input

\* C5 for the adapters whose impl defines reset and serialize
C5_ForwardingAdapters ==
    lifecycle.op # "none" /\ lifecycle.adapter \in {"DynAnyNode", "DynAnyRefNode", "FutureWrapperNode"}
        => C5_AdaptersForwardLifecycle

\* C6: construct_artboard evaluates its contents sub-node exactly once, with
\* a footprint whose transform is the caller's transform times the
\* translation by the location and whose other fields are the caller's; the
\* caller's footprint is what it was before the call.
C6_FootprintPropagation ==
    abCall.op = "construct_artboard" =>
        LET F == abCall.footprint
            L == abCall.location
            m == F.transform.matrix2
        IN /\ Len(abCall.seen) = 1
           /\ abCall.seen[1].transform.matrix2 = m
           /\ abCall.seen[1].transform.translation =
                 <<m[1] * L[1] + m[3] * L[2] + F.transform.translation[1],
                   m[2] * L[1] + m[4] * L[2] + F.transform.translation[2]>>
           /\ abCall.seen[1].resolution = F.resolution
           /\ callerFootprint = F

\* a caller with a rotating, scaling footprint constructed an artboard away
\* from the origin
C6_Witness ==
    /\ abCall.op = "construct_artboard"
    /\ abCall.location = <<10, 10>>
    /\ abCall.footprint.transform.matrix2 # <<1, 0, 0, 1>>
    /\ ~IsPanic(abCall.result)

\* the children of a usvg group are the lowered elements, in order
ChildrenAreLowered(node, elements) ==
    /\ Len(node.children) = Len(elements)
    /\ \A i \in 1..Len(elements) :
          node.children[i] = to_usvg_node(elements[i], overflow_checks)

\* C7: the tree to_usvg_tree returns for a group of n elements has a root
\* with n children, the i-th being the lowering of the i-th element, and a
\* nested group lowers to one group node holding its lowered children in order.
C7_LoweringPreservesStructure ==
    /\ (lowered.op = "to_usvg_tree" /\ ~IsPanic(lowered.result)) =>
          ChildrenAreLowered(lowered.result.tree.root, lowered.of.elements)
    /\ (/\ lowered.op = "to_usvg_node"
        /\ lowered.of.kind = "GraphicGroup"
        /\ ~IsPanic(lowered.result)) =>
          /\ lowered.result.node = "Group"
          /\ ChildrenAreLowered(lowered.result, lowered.of.group.elements)

\* C7 for the nested groups alone, and for the local root_node of to_usvg_tree
C7_NestedGroupsAndLocalRoot ==
    /\ (lowered.op = "to_usvg_tree" /\ ~IsPanic(lowered.result)) =>
          ChildrenAreLowered(lowered.result.root_node, lowered.of.elements)
    /\ (/\ lowered.op = "to_usvg_node"
        /\ lowered.of.kind = "GraphicGroup"
        /\ ~IsPanic(lowered.result)) =>
          /\ lowered.result.node = "Group"
          /\ ChildrenAreLowered(lowered.result, lowered.of.group.elements)

\* a zero-sized raster image, a vector path with no subpath, an empty group
Degenerate(e) ==
    \/ /\ e.kind = "ImageFrame"
       /\ (e.image_frame.image.width = U32(0) \/ e.image_frame.image.height = U32(0))
    \/ e.kind = "VectorData" /\ e.vector_data.subpaths = <<>>
    \/ e.kind = "GraphicGroup" /\ e.group.elements = <<>>

\* C8: lowering a degenerate element never faults and gives an empty output
\* node (a group without children).
C8_DegenerateTolerance ==
    (lowered.op = "to_usvg_node" /\ Degenerate(lowered.of)) =>
        lowered.result = usvg_Group_default

\* C8 without the vector paths: zero-sized images and empty groups
C8_DegenerateImagesAndGroups ==
    (/\ lowered.op = "to_usvg_node"
     /\ Degenerate(lowered.of)
     /\ lowered.of.kind # "VectorData") =>
        lowered.result = usvg_Group_default

IsPrefix(p, q) == Len(p) <= Len(q) /\ \A i \in 1..Len(p) : p[i] = q[i]

\* C9: the ArtboardGroup built by successive add_artboard evaluations from
\* the empty group holds the appended artboards in append order, and
\* get_graphic_group returns a group of as many elements, the i-th being
\* GraphicElement::Artboard of the i-th artboard, and leaves the
\* ArtboardGroup as it was.
C9_ArtboardOrderPreserved ==
    /\ artboards.artboards = added
    /\ flat # None =>
          /\ Len(flat.result.elements) = Len(flat.of.artboards)
          /\ \A i \in 1..Len(flat.of.artboards) :
                flat.result.elements[i] =
                    [kind |-> "Artboard", artboard |-> flat.of.artboards[i]]
          /\ IsPrefix(flat.of.artboards, artboards.artboards)

\* two different artboards were added and the group was flattened
C9_Witness ==
    /\ Len(added) = 2
    /\ added[1] # added[2]
    /\ flat # None
    /\ flat.of = artboards

\* the call went through one of the reference-input adapters
RefCall == call.pc # "idle" /\ call.adapter \in {"DynAnyRefNode", "DynAnyInRefNode"}

\* the reference the adapter recovers: a Box<_I> for DynAnyRefNode, a Box<&_I>
\* for DynAnyInRefNode
RefCallMatches == CallMatches(call.adapter = "DynAnyInRefNode")

AppliedTranslation(F, seen) ==
    LET m == F.transform.matrix2
        d == <<seen.transform.translation[1] - F.transform.translation[1],
               seen.transform.translation[2] - F.transform.translation[2]>>
        det == m[1] * m[4] - m[3] * m[2]
    IN <<(m[4] * d[1] - m[3] * d[2]) \div det,
         (m[1] * d[2] - m[2] * d[1]) \div det>>

\* C11: when construct_artboard returns an Artboard, the translation applied
\* to the footprint its contents sub-node was evaluated with equals the
\* location field of the returned Artboard, for every location and dimensions
\* (negative dimensions included).
C11_ContentsInArtboardLocalSpace ==
    (abCall.op = "construct_artboard" /\ ~IsPanic(abCall.result)) =>
        AppliedTranslation(abCall.footprint, abCall.seen[1]) = abCall.result.location

\* C11 for the requests whose location is already the minimum corner:
\* no negative component in dimensions and location + dimensions fits an i32
C11_NonNegativeDimensions ==
    (/\ abCall.op = "construct_artboard"
     /\ ~IsPanic(abCall.result)
     /\ abCall.dimensions[1] >= 0 /\ abCall.dimensions[2] >= 0
     /\ ~IVec2_add_overflows(abCall.location, abCall.dimensions)) =>
        AppliedTranslation(abCall.footprint, abCall.seen[1]) = abCall.result.location

\* an image frame whose width or height is zero
ZeroArea(image) == image.width = U32(0) \/ image.height = U32(0)

\* C12: to_usvg_node on an ImageFrame returns an empty group if and only if
\* the width or the height is zero; a frame with width > 0 and height > 0
\* lowers to an image node and never faults, for all 32-bit widths and
\* heights, the area being width * height in 32-bit arithmetic.
C12_DegenerateExactlyForZeroArea ==
    (lowered.op = "to_usvg_node" /\ lowered.of.kind = "ImageFrame") =>
        /\ (lowered.result = usvg_Group_default) <=> ZeroArea(lowered.of.image_frame.image)
        /\ ~ZeroArea(lowered.of.image_frame.image) =>
              (~IsPanic(lowered.result) /\ lowered.result.node = "Image")

\* C12 for the frames whose area width * height fits 32 bits
C12_AreaInRange ==
    (/\ lowered.op = "to_usvg_node"
     /\ lowered.of.kind = "ImageFrame"
     /\ ~MulU32Overflows(lowered.of.image_frame.image.width,
                         lowered.of.image_frame.image.height)) =>
        /\ (lowered.result = usvg_Group_default) <=> ZeroArea(lowered.of.image_frame.image)
        /\ ~ZeroArea(lowered.of.image_frame.image) =>
              (~IsPanic(lowered.result) /\ lowered.result.node = "Image")

============================================================================
